---- MODULE Spec2Model ----
(***************************************************************************)
(* The server-side simulation engine of the IoT threat simulator           *)
(* (SimulationEngine, src/unnamed/part_001) together with the parts of the *)
(* server that register and remove engine listeners                        *)
(* (src/apps/server/src/index.ts).                                         *)
(* The web client's stores (src/apps/web/src/store) are modelled as far as *)
(* their event log, device list and simulation controls go.                *)
(*                                                                         *)
(* Numbers.  Device metrics are JavaScript numbers.  They are kept here as *)
(* integers in units of 1/Scale, and a value of Math.random() as an        *)
(* integer q standing for q/RandDen.  With the random values and attack    *)
(* intensities the model draws from, every product and quotient the code   *)
(* computes is exact in these units.  failedAuth stays a plain integer.    *)
(*                                                                         *)
(* Randomness.  Every timer callback and every construction of a device    *)
(* batch draws one random source; Draw gives the value Math.random()       *)
(* returns while device i is being processed.                              *)
(*                                                                         *)
(* Exceptions.  emitEvent calls the listeners with no try/catch, so a      *)
(* listener that throws ends the handler that emitted the event at that    *)
(* point.  A handler is therefore a function on a context                  *)
(* [st, emitted, calls, threw]: once threw is TRUE the rest of the handler *)
(* does nothing.  An exception that leaves a timer callback is uncaught    *)
(* and ends the process (crashed); one that leaves a call made by a route  *)
(* or socket handler goes to that caller and the engine lives on.          *)
(*                                                                         *)
(* applyAttackEffects.  The class text declares the method twice.  The     *)
(* model follows the first declaration (lines 322-395), which tick() and   *)
(* applyDefenseMitigations are written against.  The second (lines         *)
(* 448-562) has unbalanced braces and reads the undeclared identifiers     *)
(* defense and intensity; no part of it is modelled.                       *)
(***************************************************************************)
EXTENDS Integers, Sequences, FiniteSets, TLC

VARIABLES
    state,           \* this.state: the SimulationState
    tickInterval,    \* this.tickInterval: the handle of the tick timer, or NULL
    timers,          \* the interval timers scheduled in the event loop
    nextTimer,       \* the next handle setInterval returns
    eventListeners,  \* this.eventListeners, in registration order
    clock,           \* Date.now()
    crashed,         \* an exception left a timer callback
    sockets,         \* the connected client sockets of the server
    nextSocket,      \* the number the next connecting socket gets
    pushTimers,      \* the sockets whose 1-second state push timer is scheduled
    snapshots,       \* the values getState() returned, as their callers hold them
    lastOp,          \* the operation that made the last step
    lastArg,         \* its argument
    emitted,         \* the events the last operation passed to emitEvent, in order
    calls,           \* the listener calls <<fn, message>> the last operation made
    threw,           \* the last operation ended with an exception
    useStore,        \* the web client's store of src/apps/web/src/store/index.ts
    useSimulationStore  \* the web client's store of store/useSimulationStore.ts

vars == <<state, tickInterval, timers, nextTimer, eventListeners, clock,
          crashed, sockets, nextSocket, pushTimers, snapshots, lastOp, lastArg, emitted, calls, threw,
          useStore, useSimulationStore>>

server == <<sockets, nextSocket, pushTimers>>

client == <<useStore, useSimulationStore>>

NULL == 0

(***************************************************************************)
(* Bounds of the model.                                                    *)
(***************************************************************************)
MaxClock == 1        \* the clock stops advancing here
MaxStarts == 2       \* effective start() calls in one behaviour
MaxListeners == 1    \* listeners registered through addEventListener
MaxChain == 2        \* listeners registered where the claim is about their order
MaxClients == 2      \* client sockets that connect in one behaviour
MaxRestarts == 1     \* effective start() calls where the loops carry the claim
MaxFloodTicks == 4   \* consecutive ticks under a flood
MaxTicks == 2        \* timer callbacks where a claim needs two ticks in a row
MaxSnapshots == 2    \* snapshots held by callers
MaxEvents == 204     \* events the client receives (its addEvent cuts the log at 200)

(***************************************************************************)
(* Program constants.                                                      *)
(***************************************************************************)
DeviceCount == 5
BASE_TICK_INTERVAL == 500
METRIC_UPDATE_INTERVAL == 1000
RISK_UPDATE_INTERVAL == 5000

Scale == 10 * 10000
RandDen == 4 * 5

\* Values of Math.random(), as numerators over RandDen: 0, 0.5, 0.75.
RandomValues == <<0, 10, 15>>

\* The strides of a random source over the device list.
Strides == {0, 1}

RandomSources == [base : 0..(Len(RandomValues) - 1), stride : Strides]

\* The sources that give every device the same value, and those that do not.
UniformSources == {rnd \in RandomSources : rnd.stride = 0}
MixedSources == {rnd \in RandomSources : rnd.stride # 0}

\* What Math.random() returns while device i is processed under source rnd.
Draw(rnd, i) == RandomValues[((rnd.base + rnd.stride * (i - 1)) % Len(RandomValues)) + 1]

\* Math.random() stubbed to return 0: every "random < p" test succeeds.
SucceedingSources == {rnd \in RandomSources : \A i \in 1..DeviceCount : Draw(rnd, i) = 0}

\* floor(v * num / den), without an intermediate product of v and num.
MulDiv(v, num, den) == (v \div den) * num + ((v % den) * num) \div den

Min(a, b) == IF a < b THEN a ELSE b
Max(a, b) == IF a > b THEN a ELSE b

DEVICE_TYPES == <<"cctv", "smart_bulb", "thermostat", "door_lock", "ip_camera">>

\* BASE_METRICS, cpu/mem/netIn/netOut/msgRate in units of 1/Scale.
BASE_METRICS(type) ==
    CASE type = "cctv"       -> [cpu |-> 15 * Scale, mem |-> 30 * Scale, netIn |-> 200 * Scale,
                                 netOut |-> 500 * Scale, msgRate |-> 10 * Scale, failedAuth |-> 0]
      [] type = "smart_bulb" -> [cpu |-> 5 * Scale, mem |-> 10 * Scale, netIn |-> 10 * Scale,
                                 netOut |-> 5 * Scale, msgRate |-> 2 * Scale, failedAuth |-> 0]
      [] type = "thermostat" -> [cpu |-> 10 * Scale, mem |-> 15 * Scale, netIn |-> 5 * Scale,
                                 netOut |-> 5 * Scale, msgRate |-> 1 * Scale, failedAuth |-> 0]
      [] type = "door_lock"  -> [cpu |-> 8 * Scale, mem |-> 12 * Scale, netIn |-> 3 * Scale,
                                 netOut |-> 3 * Scale, msgRate |-> Scale \div 2, failedAuth |-> 0]
      [] type = "ip_camera"  -> [cpu |-> 20 * Scale, mem |-> 40 * Scale, netIn |-> 300 * Scale,
                                 netOut |-> 800 * Scale, msgRate |-> 15 * Scale, failedAuth |-> 0]

\* value * (1 + (Math.random() * 2 - 1) * METRIC_VARIANCE), METRIC_VARIANCE = 0.2:
\* with Math.random() = q/RandDen the factor is (40 + q)/50.
variance(value, q) == MulDiv(value, 2 * RandDen + q, 2 * RandDen + RandDen \div 2)

\* attackFactor comes in halves (0, 2, 3 for 0, 1, 1.5):
\* attackMultiplier = 1 + (attackFactor - 1) * 0.5 = (2 + attackFactorHalves) / 4.
calculateDeviceMetrics(base, attackFactorHalves, isTampered, q, now) ==
    LET am(v) == MulDiv(v, 2 + attackFactorHalves, 4)
        tm(v) == IF isTampered THEN MulDiv(v, 13, 10) ELSE v
    IN  [cpu        |-> variance(Min(100 * Scale, tm(am(base.cpu))), q),
         mem        |-> variance(Min(100 * Scale, tm(am(base.mem))), q),
         netIn      |-> variance(tm(am(base.netIn)), q),
         netOut     |-> variance(tm(am(base.netOut)), q),
         msgRate    |-> IF base.msgRate # 0 THEN variance(tm(am(base.msgRate)), q) ELSE 0,
         failedAuth |-> IF base.failedAuth # 0 THEN base.failedAuth ELSE 0,
         timestamp  |-> now]

baseRisks(type) ==
    CASE type = "cctv" -> 40
      [] type = "ip_camera" -> 45
      [] type = "door_lock" -> 60
      [] type = "smart_bulb" -> 25
      [] type = "thermostat" -> 30

\* A mutant of riskSum: the thresholds are inclusive.
riskSum_InclusiveThresholds(device) ==
    LET metrics == device.metrics
        r0 == baseRisks(device.type)
        r1 == r0 + (IF device.weakPassword THEN 20 ELSE 0)
        r2 == r1 + (IF metrics.cpu >= 80 * Scale THEN 15
                    ELSE IF metrics.cpu >= 50 * Scale THEN 7 ELSE 0)
        r3 == r2 + (IF metrics.netIn >= 500 * Scale \/ metrics.netOut >= 500 * Scale THEN 15
                    ELSE IF metrics.netIn >= 200 * Scale \/ metrics.netOut >= 200 * Scale THEN 7
                    ELSE 0)
        r4 == r3 + (IF metrics.failedAuth >= 5 THEN 20
                    ELSE IF metrics.failedAuth > 0 THEN 5 ELSE 0)
        r5 == r4 + (IF device.compromised THEN 30 ELSE 0)
        r6 == r5 + (IF device.integrityRisk THEN 25 ELSE 0)
    IN  r6

\* The sum of the risk contributions, before the cap.
riskSum(device) ==
    LET metrics == device.metrics
        r0 == baseRisks(device.type)
        r1 == r0 + (IF device.weakPassword THEN 20 ELSE 0)
        r2 == r1 + (IF metrics.cpu > 80 * Scale THEN 15
                    ELSE IF metrics.cpu > 50 * Scale THEN 7 ELSE 0)
        r3 == r2 + (IF metrics.netIn > 500 * Scale \/ metrics.netOut > 500 * Scale THEN 15
                    ELSE IF metrics.netIn > 200 * Scale \/ metrics.netOut > 200 * Scale THEN 7
                    ELSE 0)
        r4 == r3 + (IF metrics.failedAuth > 5 THEN 20
                    ELSE IF metrics.failedAuth > 0 THEN 5 ELSE 0)
        r5 == r4 + (IF device.compromised THEN 30 ELSE 0)
        r6 == r5 + (IF device.integrityRisk THEN 25 ELSE 0)
    IN  r6

\* A mutant of calculateDeviceRisk: the sum is returned as it is.
calculateDeviceRisk_Uncapped(device) == riskSum(device)

\* return Math.min(100, Math.max(0, riskScore));
calculateDeviceRisk(device) == Min(100, Max(0, riskSum(device)))

DEFAULT_PORTS(type) ==
    CASE type = "cctv" -> <<80, 443, 554, 8000>>
      [] type = "smart_bulb" -> <<80, 443, 8080>>
      [] type = "thermostat" -> <<80, 443, 3000>>
      [] type = "door_lock" -> <<80, 443, 3001>>
      [] type = "ip_camera" -> <<80, 443, 554, 8000, 9000>>

\* One device of generateDevices: the type is DEVICE_TYPES[floor(random * 5)],
\* weakPassword is random > 0.7, the metrics are synthesized with attackFactor 0.
generateDevice(i, q, now) ==
    LET type == DEVICE_TYPES[((q * Len(DEVICE_TYPES)) \div RandDen) + 1]
        d == [id           |-> i,
              type         |-> type,
              weakPassword |-> (10 * q > 7 * RandDen),
              openPorts    |-> DEFAULT_PORTS(type),
              compromised  |-> FALSE,
              integrityRisk |-> FALSE,
              metrics      |-> calculateDeviceMetrics(BASE_METRICS(type), 0, FALSE, q, now),
              lastUpdated  |-> now,
              riskScore    |-> 0]
    IN  [d EXCEPT !.riskScore = calculateDeviceRisk(d)]

generateDevices(count, rnd, now) == [i \in 1..count |-> generateDevice(i, Draw(rnd, i), now)]

createInitialState(rnd, now) ==
    [running      |-> FALSE,
     startedAt    |-> now,
     lastUpdated  |-> now,
     tickInterval |-> BASE_TICK_INTERVAL,
     devices      |-> generateDevices(DeviceCount, rnd, now),
     attack       |-> [synFlood |-> 0, dictionaryAttack |-> 0, mqttFlood |-> 0,
                       firmwareTamper |-> FALSE],
     defense      |-> [rateLimiting |-> FALSE, accountLockout |-> FALSE,
                       signatureCheck |-> FALSE]]

(***************************************************************************)
(* Events and listeners.                                                   *)
(***************************************************************************)
\* The callbacks a caller may register: one that returns and one that throws.
ListenerFns == {[kind |-> "listener", socket |-> NULL], [kind |-> "faulty", socket |-> NULL]}
Throws(fn) == fn.kind = "faulty"

SystemEvent(type, severity, message) ==
    [type |-> type, severity |-> severity, message |-> message, deviceId |-> "system"]

DeviceEvent(type, severity, message, device) ==
    [type |-> type, severity |-> severity, message |-> message, deviceId |-> device.id]

\* The position of the first listener that throws, or 0.
RECURSIVE FirstThrow(_, _)
FirstThrow(listeners, k) ==
    IF k > Len(listeners) THEN 0
    ELSE IF Throws(listeners[k]) THEN k
    ELSE FirstThrow(listeners, k + 1)

\* this.eventListeners.forEach(listener => listener(event)): the listeners are
\* called in order; an exception from one ends the forEach and leaves emitEvent.
emitEvent(ctx, listeners, event) ==
    IF ctx.threw THEN ctx
    ELSE LET ft == FirstThrow(listeners, 1)
             last == IF ft = 0 THEN Len(listeners) ELSE ft
         IN  [ctx EXCEPT !.emitted = Append(@, event),
                         !.calls = @ \o [k \in 1..last |-> <<listeners[k], event.message>>],
                         !.threw = (ft # 0)]

Ctx(st) == [st |-> st, emitted |-> <<>>, calls |-> <<>>, threw |-> FALSE]

\* The statements of a handler that follow a call that may have thrown.
Then(ctx, st) == IF ctx.threw THEN ctx ELSE [ctx EXCEPT !.st = st]

NoArg == [none |-> TRUE]

\* The web client's stores as they are created.  Of useStore
\* (store/index.ts) the fields the event log needs are kept; of
\* useSimulationStore the fields its device and simulation-control actions
\* read and write.  socket is TRUE for a socket object and FALSE for null.
initialState == [events |-> <<>>, selectedDeviceId |-> NULL, connected |-> FALSE]

initialSimulationStore ==
    [isConnected |-> FALSE, isSimulationRunning |-> FALSE, socket |-> FALSE,
     devices |-> <<>>, selectedDeviceId |-> NULL, events |-> <<>>]

InitWith(sources, listeners) ==
    /\ \E rnd \in sources : state = createInitialState(rnd, 0)
    /\ tickInterval = NULL
    /\ timers = {}
    /\ nextTimer = 1
    /\ eventListeners = listeners
    /\ clock = 0
    /\ crashed = FALSE
    /\ sockets = {}
    /\ nextSocket = 1
    /\ pushTimers = {}
    /\ snapshots = <<>>
    /\ lastOp = "new"
    /\ lastArg = NoArg
    /\ emitted = <<>>
    /\ calls = <<>>
    /\ threw = FALSE
    /\ useStore = initialState
    /\ useSimulationStore = initialSimulationStore

\* What every operation records of itself.
Observe(op, arg, ctx) ==
    /\ lastOp' = op
    /\ lastArg' = arg
    /\ emitted' = ctx.emitted
    /\ calls' = ctx.calls
    /\ threw' = ctx.threw

TimePasses(maxClock) ==
    /\ ~crashed
    /\ clock < maxClock
    /\ clock' = clock + 1
    /\ Observe("time", NoArg, Ctx(state))
    /\ UNCHANGED <<state, tickInterval, timers, nextTimer, eventListeners, crashed, server, snapshots, client>>

addEventListener(fn, maxListeners) ==
    /\ ~crashed
    /\ Len(eventListeners) < maxListeners
    /\ eventListeners' = Append(eventListeners, fn)
    /\ Observe("addEventListener", [fn |-> fn], Ctx(state))
    /\ UNCHANGED <<state, tickInterval, timers, nextTimer, clock, crashed, server, snapshots, client>>

NumTimers(cb) == Cardinality({t \in timers : t.cb = cb})

\* The three setInterval calls of start(): only the first handle is kept.
startTimers == timers \cup {[id |-> nextTimer, cb |-> "tick"],
                            [id |-> nextTimer + 1, cb |-> "updateDeviceMetrics"],
                            [id |-> nextTimer + 2, cb |-> "updateRiskScores"]}

\* A mutant of startGuard: start() without its first line.
startGuard_Missing == FALSE

\* if (this.state.running) return;
startGuard == state.running

start(maxStarts) ==
    /\ ~crashed
    /\ IF startGuard
       THEN /\ Observe("start", NoArg, Ctx(state))
            /\ UNCHANGED <<state, tickInterval, timers, nextTimer>>
       ELSE /\ NumTimers("updateDeviceMetrics") < maxStarts
            /\ LET st == [state EXCEPT !.running = TRUE, !.startedAt = clock]
                   ctx == emitEvent(Ctx(st), eventListeners,
                                    SystemEvent("info", "info", "Simulation started"))
               IN  /\ state' = ctx.st
                   /\ Observe("start", NoArg, ctx)
            /\ tickInterval' = nextTimer
            /\ timers' = startTimers
            /\ nextTimer' = nextTimer + 3
    /\ UNCHANGED <<eventListeners, clock, crashed, server, snapshots, client>>

\* clearInterval(this.tickInterval)
pauseTimers == {t \in timers : t.id # tickInterval}

\* pause() as a function of the engine: the state and timer fields it leaves
\* and the events it emitted.
pauseCtx ==
    IF tickInterval = NULL THEN Ctx(state)
    ELSE emitEvent(Ctx([state EXCEPT !.running = FALSE]), eventListeners,
                   SystemEvent("info", "info", "Simulation paused"))

pause ==
    /\ ~crashed
    /\ state' = pauseCtx.st
    /\ timers' = IF tickInterval = NULL THEN timers ELSE pauseTimers
    /\ tickInterval' = NULL
    /\ Observe("pause", NoArg, pauseCtx)
    /\ UNCHANGED <<nextTimer, eventListeners, clock, crashed, server, snapshots, client>>

\* reset(): this.pause(); this.state = this.createInitialState(); emitEvent(...)
resetCtx(rnd) ==
    LET c1 == pauseCtx
        c2 == Then(c1, createInitialState(rnd, clock))
    IN  emitEvent(c2, eventListeners,
                  SystemEvent("info", "info", "Simulation reset to initial state"))

\* reset(), with the Math.random() of the new device batch drawn from the given sources.
resetFrom(sources) ==
    /\ ~crashed
    /\ \E rnd \in sources :
          LET ctx == resetCtx(rnd)
          IN  /\ state' = ctx.st
              /\ Observe("reset", NoArg, ctx)
    /\ timers' = IF tickInterval = NULL THEN timers ELSE pauseTimers
    /\ tickInterval' = NULL
    /\ UNCHANGED <<nextTimer, eventListeners, clock, crashed, server, snapshots, client>>

reset == resetFrom(RandomSources)

(***************************************************************************)
(* Control operations.                                                     *)
(***************************************************************************)
\* { ...current, ...partial }: the keys of the partial replace the current ones.
Merge(current, partial) ==
    [f \in DOMAIN current |-> IF f \in DOMAIN partial THEN partial[f] ELSE current[f]]

\* A mutant of setAttackStateCtx: the attack state is merged and the event
\* emitted, the devices are left to the next tick.
setAttackStateCtx_DevicesUntouched(attack) ==
    LET st1 == [state EXCEPT !.attack = Merge(@, attack)]
    IN  IF "firmwareTamper" \in DOMAIN attack
        THEN emitEvent(Ctx(st1), eventListeners,
                       IF attack.firmwareTamper
                       THEN SystemEvent("tampering", "critical",
                                        "Firmware tampering detected across all devices!")
                       ELSE SystemEvent("info", "info", "Firmware integrity restored"))
        ELSE Ctx(st1)

\* A mutant of setAttackStateCtx: the partial replaces the attack state, the
\* fields it lacks fall back to the values of a new engine.
setAttackStateCtx_Replaces(attack) ==
    LET st1 == [state EXCEPT !.attack =
                   Merge([synFlood |-> 0, dictionaryAttack |-> 0, mqttFlood |-> 0,
                          firmwareTamper |-> FALSE], attack)]
    IN  IF "firmwareTamper" \in DOMAIN attack
        THEN LET st2 == [st1 EXCEPT !.devices =
                            [i \in DOMAIN @ |-> [@[i] EXCEPT !.integrityRisk = attack.firmwareTamper]]]
             IN  emitEvent(Ctx(st2), eventListeners,
                           IF attack.firmwareTamper
                           THEN SystemEvent("tampering", "critical",
                                            "Firmware tampering detected across all devices!")
                           ELSE SystemEvent("info", "info", "Firmware integrity restored"))
        ELSE Ctx(st1)

setAttackStateCtx(attack) ==
    LET st1 == [state EXCEPT !.attack = Merge(@, attack)]
    IN  IF "firmwareTamper" \in DOMAIN attack
        THEN LET st2 == [st1 EXCEPT !.devices =
                            [i \in DOMAIN @ |-> [@[i] EXCEPT !.integrityRisk = attack.firmwareTamper]]]
             IN  emitEvent(Ctx(st2), eventListeners,
                           IF attack.firmwareTamper
                           THEN SystemEvent("tampering", "critical",
                                            "Firmware tampering detected across all devices!")
                           ELSE SystemEvent("info", "info", "Firmware integrity restored"))
        ELSE Ctx(st1)

setAttackState(attack) ==
    /\ ~crashed
    /\ LET ctx == setAttackStateCtx(attack)
       IN  /\ state' = ctx.st
           /\ Observe("setAttackState", attack, ctx)
    /\ UNCHANGED <<tickInterval, timers, nextTimer, eventListeners, clock, crashed, server, snapshots, client>>

\* A mutant of setDefenseStateCtx: switching the signature check on restores
\* the devices at once instead of in the next tick.
setDefenseStateCtx_RestoresAtOnce(defense) ==
    LET st1 == [state EXCEPT !.defense = Merge(@, defense)]
    IN  IF "signatureCheck" \in DOMAIN defense
        THEN LET st2 == IF defense.signatureCheck
                        THEN [st1 EXCEPT !.devices =
                                 [i \in DOMAIN @ |-> [@[i] EXCEPT !.integrityRisk = FALSE]]]
                        ELSE st1
             IN  emitEvent(Ctx(st2), eventListeners,
                           SystemEvent("info", "info",
                                       IF defense.signatureCheck
                                       THEN "Signature verification enabled"
                                       ELSE "Signature verification disabled"))
        ELSE Ctx(st1)

setDefenseStateCtx(defense) ==
    LET st1 == [state EXCEPT !.defense = Merge(@, defense)]
    IN  IF "signatureCheck" \in DOMAIN defense
        THEN emitEvent(Ctx(st1), eventListeners,
                       SystemEvent("info", "info",
                                   IF defense.signatureCheck
                                   THEN "Signature verification enabled"
                                   ELSE "Signature verification disabled"))
        ELSE Ctx(st1)

setDefenseState(defense) ==
    /\ ~crashed
    /\ LET ctx == setDefenseStateCtx(defense)
       IN  /\ state' = ctx.st
           /\ Observe("setDefenseState", defense, ctx)
    /\ UNCHANGED <<tickInterval, timers, nextTimer, eventListeners, clock, crashed, server, snapshots, client>>

(***************************************************************************)
(* The tick.  q is the value of Math.random() while the device is          *)
(* processed; s = intensity / 100.                                         *)
(***************************************************************************)
SetDevice(ctx, i, d) == [ctx EXCEPT !.st.devices[i] = d]

\* SYN flood: netIn += 500 * s * (1 + random), cpu += 10 * s * (1 + random),
\* and an attack event when random < 0.1 * s.
synFloodEffect(ctx, i, q) ==
    LET a == ctx.st.attack.synFlood
        d == ctx.st.devices[i]
        d1 == [d EXCEPT !.metrics.netIn = @ + MulDiv(5 * a * (RandDen + q), Scale, RandDen),
                        !.metrics.cpu = @ + MulDiv(a * (RandDen + q), Scale, 10 * RandDen)]
    IN  IF ctx.threw \/ ~(a > 0) THEN ctx
        ELSE IF 1000 * q < a * RandDen
             THEN emitEvent(SetDevice(ctx, i, d1), eventListeners,
                            DeviceEvent("attack",
                                        IF a > 70 THEN "high" ELSE IF a > 30 THEN "medium" ELSE "low",
                                        "SYN flood attack detected", d))
             ELSE SetDevice(ctx, i, d1)

\* A mutant of dictionaryEffect: the compromise check does not look at weakPassword.
dictionaryEffect_AnyPassword(ctx, i, q) ==
    LET a == ctx.st.attack.dictionaryAttack
        d == ctx.st.devices[i]
        d1 == [d EXCEPT !.metrics.failedAuth = @ + ((5 * a) \div 100)]
        d2 == [d1 EXCEPT !.compromised = TRUE]
    IN  IF ctx.threw \/ ~(a > 0 /\ ~d.compromised) THEN ctx
        ELSE IF 10000 * q < 5 * a * RandDen
             THEN emitEvent(SetDevice(ctx, i, d2), eventListeners,
                            DeviceEvent("compromise", "critical",
                                        "Device has been compromised!", d))
             ELSE SetDevice(ctx, i, d1)

\* A mutant of dictionaryEffect: a locked-out account is not attacked further.
dictionaryEffect_LockoutBlocks(ctx, i, q) ==
    LET a == ctx.st.attack.dictionaryAttack
        d == ctx.st.devices[i]
        d1 == [d EXCEPT !.metrics.failedAuth = @ + ((5 * a) \div 100)]
        d2 == [d1 EXCEPT !.compromised = TRUE]
    IN  IF ctx.threw \/ ~(a > 0 /\ ~d.compromised) \/ ctx.st.defense.accountLockout THEN ctx
        ELSE IF d.weakPassword /\ 10000 * q < 5 * a * RandDen
             THEN emitEvent(SetDevice(ctx, i, d2), eventListeners,
                            DeviceEvent("compromise", "critical",
                                        "Device has been compromised!", d))
             ELSE SetDevice(ctx, i, d1)

\* A mutant of dictionaryEffect: the branch is entered for compromised devices too.
dictionaryEffect_NoCompromisedGuard(ctx, i, q) ==
    LET a == ctx.st.attack.dictionaryAttack
        d == ctx.st.devices[i]
        d1 == [d EXCEPT !.metrics.failedAuth = @ + ((5 * a) \div 100)]
        d2 == [d1 EXCEPT !.compromised = TRUE]
    IN  IF ctx.threw \/ ~(a > 0) THEN ctx
        ELSE IF d.weakPassword /\ 10000 * q < 5 * a * RandDen
             THEN emitEvent(SetDevice(ctx, i, d2), eventListeners,
                            DeviceEvent("compromise", "critical",
                                        "Device has been compromised!", d))
             ELSE SetDevice(ctx, i, d1)

\* A mutant of dictionaryEffect: a compromised device gets a new password.
dictionaryEffect_ChangesPassword(ctx, i, q) ==
    LET a == ctx.st.attack.dictionaryAttack
        d == ctx.st.devices[i]
        d1 == [d EXCEPT !.metrics.failedAuth = @ + ((5 * a) \div 100)]
        d2 == [d1 EXCEPT !.compromised = TRUE, !.weakPassword = FALSE]
    IN  IF ctx.threw \/ ~(a > 0 /\ ~d.compromised) THEN ctx
        ELSE IF d.weakPassword /\ 10000 * q < 5 * a * RandDen
             THEN emitEvent(SetDevice(ctx, i, d2), eventListeners,
                            DeviceEvent("compromise", "critical",
                                        "Device has been compromised!", d))
             ELSE SetDevice(ctx, i, d1)

\* Dictionary attack: failedAuth += floor(5 * s); a weak-password device is
\* compromised when random < 0.05 * s.
dictionaryEffect(ctx, i, q) ==
    LET a == ctx.st.attack.dictionaryAttack
        d == ctx.st.devices[i]
        d1 == [d EXCEPT !.metrics.failedAuth = @ + ((5 * a) \div 100)]
        d2 == [d1 EXCEPT !.compromised = TRUE]
    IN  IF ctx.threw \/ ~(a > 0 /\ ~d.compromised) THEN ctx
        ELSE IF d.weakPassword /\ 10000 * q < 5 * a * RandDen
             THEN emitEvent(SetDevice(ctx, i, d2), eventListeners,
                            DeviceEvent("compromise", "critical",
                                        "Device has been compromised!", d))
             ELSE SetDevice(ctx, i, d1)

\* MQTT flood: msgRate += 50 * s * (1 + random), cpu += 5 * s * (1 + random),
\* and an attack event when random < 0.1 * s.
mqttFloodEffect(ctx, i, q) ==
    LET a == ctx.st.attack.mqttFlood
        d == ctx.st.devices[i]
        d1 == [d EXCEPT !.metrics.msgRate = @ + MulDiv(a * (RandDen + q), Scale, 2 * RandDen),
                        !.metrics.cpu = @ + MulDiv(a * (RandDen + q), Scale, 20 * RandDen)]
    IN  IF ctx.threw \/ ~(a > 0) THEN ctx
        ELSE IF 1000 * q < a * RandDen
             THEN emitEvent(SetDevice(ctx, i, d1), eventListeners,
                            DeviceEvent("attack", IF a > 70 THEN "high" ELSE "medium",
                                        "MQTT flood attack detected", d))
             ELSE SetDevice(ctx, i, d1)

\* A mutant of firmwareTamperEffect: the branch does not look at the attack flag.
firmwareTamperEffect_NoAttackGuard(ctx, i, q) ==
    LET d == ctx.st.devices[i]
    IN  IF ctx.threw \/ d.integrityRisk THEN ctx
        ELSE IF 100 * q < 5 * RandDen
             THEN emitEvent(SetDevice(ctx, i, [d EXCEPT !.integrityRisk = TRUE]), eventListeners,
                            DeviceEvent("tampering", "critical",
                                        "Firmware tampering detected", d))
             ELSE ctx

\* Firmware tampering: with random < 0.05 the device gets integrityRisk.
firmwareTamperEffect(ctx, i, q) ==
    LET d == ctx.st.devices[i]
    IN  IF ctx.threw \/ ~(ctx.st.attack.firmwareTamper /\ ~d.integrityRisk) THEN ctx
        ELSE IF 100 * q < 5 * RandDen
             THEN emitEvent(SetDevice(ctx, i, [d EXCEPT !.integrityRisk = TRUE]), eventListeners,
                            DeviceEvent("tampering", "critical",
                                        "Firmware tampering detected", d))
             ELSE ctx

\* The four branches in the order of the code.  Each context is bound as a
\* value, so that a branch is evaluated once however often its result is read.
applyAttackEffects(ctx, i, q) ==
    CHOOSE c4 \in {firmwareTamperEffect(c3, i, q) :
               c3 \in {mqttFloodEffect(c2, i, q) :
                   c2 \in {dictionaryEffect(c1, i, q) :
                       c1 \in {synFloodEffect(c0, i, q) : c0 \in {ctx}}}}} : TRUE

\* A mutant of applyDefenseMitigations: rate limiting scales the traffic down
\* (netIn by 0.7, msgRate by 0.5) in place of capping it.
applyDefenseMitigations_ScalesTraffic(ctx, i) ==
    LET defense == ctx.st.defense
        d == ctx.st.devices[i]
        d1 == IF defense.rateLimiting
              THEN [d EXCEPT !.metrics.netIn = MulDiv(@, 7, 10),
                             !.metrics.msgRate = MulDiv(@, 5, 10)]
              ELSE d
        d2 == IF defense.accountLockout /\ d1.metrics.failedAuth > 5
              THEN [d1 EXCEPT !.metrics.failedAuth = 5]
              ELSE d1
    IN  IF ctx.threw THEN ctx
        ELSE IF defense.signatureCheck /\ d2.integrityRisk
             THEN emitEvent(SetDevice(ctx, i, [d2 EXCEPT !.integrityRisk = FALSE]), eventListeners,
                            DeviceEvent("defense", "info", "Firmware integrity restored", d))
             ELSE SetDevice(ctx, i, d2)

\* A mutant of applyDefenseMitigations: the signature check restores nothing
\* while the firmware-tamper attack is active.
applyDefenseMitigations_NotUnderAttack(ctx, i) ==
    LET defense == ctx.st.defense
        d == ctx.st.devices[i]
        d1 == IF defense.rateLimiting
              THEN [d EXCEPT !.metrics.netIn = Min(@, 1000 * Scale),
                             !.metrics.msgRate = IF @ # 0 THEN Min(@, 100 * Scale) ELSE @]
              ELSE d
        d2 == IF defense.accountLockout /\ d1.metrics.failedAuth > 5
              THEN [d1 EXCEPT !.metrics.failedAuth = 5]
              ELSE d1
    IN  IF ctx.threw THEN ctx
        ELSE IF defense.signatureCheck /\ d2.integrityRisk /\ ~ctx.st.attack.firmwareTamper
             THEN emitEvent(SetDevice(ctx, i, [d2 EXCEPT !.integrityRisk = FALSE]), eventListeners,
                            DeviceEvent("defense", "info", "Firmware integrity restored", d))
             ELSE SetDevice(ctx, i, d2)

\* A mutant of applyDefenseMitigations: the lockout resets failedAuth to 0.
applyDefenseMitigations_LockoutResets(ctx, i) ==
    LET defense == ctx.st.defense
        d == ctx.st.devices[i]
        d1 == IF defense.rateLimiting
              THEN [d EXCEPT !.metrics.netIn = Min(@, 1000 * Scale),
                             !.metrics.msgRate = IF @ # 0 THEN Min(@, 100 * Scale) ELSE @]
              ELSE d
        d2 == IF defense.accountLockout /\ d1.metrics.failedAuth > 5
              THEN [d1 EXCEPT !.metrics.failedAuth = 0]
              ELSE d1
    IN  IF ctx.threw THEN ctx
        ELSE IF defense.signatureCheck /\ d2.integrityRisk
             THEN emitEvent(SetDevice(ctx, i, [d2 EXCEPT !.integrityRisk = FALSE]), eventListeners,
                            DeviceEvent("defense", "info", "Firmware integrity restored", d))
             ELSE SetDevice(ctx, i, d2)

applyDefenseMitigations(ctx, i) ==
    LET defense == ctx.st.defense
        d == ctx.st.devices[i]
        d1 == IF defense.rateLimiting
              THEN [d EXCEPT !.metrics.netIn = Min(@, 1000 * Scale),
                             !.metrics.msgRate = IF @ # 0 THEN Min(@, 100 * Scale) ELSE @]
              ELSE d
        d2 == IF defense.accountLockout /\ d1.metrics.failedAuth > 5
              THEN [d1 EXCEPT !.metrics.failedAuth = 5]
              ELSE d1
    IN  IF ctx.threw THEN ctx
        ELSE IF defense.signatureCheck /\ d2.integrityRisk
             THEN emitEvent(SetDevice(ctx, i, [d2 EXCEPT !.integrityRisk = FALSE]), eventListeners,
                            DeviceEvent("defense", "info", "Firmware integrity restored", d))
             ELSE SetDevice(ctx, i, d2)

\* A mutant of tickDevice: the tick recomputes the device's riskScore.
tickDevice_Rescores(ctx, i, q, now) ==
    CHOOSE r \in {IF c.threw THEN c
                  ELSE [c EXCEPT !.st.devices[i].lastUpdated = now,
                                 !.st.devices[i].riskScore = calculateDeviceRisk(c.st.devices[i])] :
                  c \in {applyDefenseMitigations(a, i) : a \in {applyAttackEffects(ctx, i, q)}}} : TRUE

\* A mutant of tickDevice: the defense mitigations run before the attack effects.
tickDevice_DefenseFirst(ctx, i, q, now) ==
    CHOOSE r \in {IF c.threw THEN c ELSE [c EXCEPT !.st.devices[i].lastUpdated = now] :
                  c \in {applyAttackEffects(a, i, q) : a \in {applyDefenseMitigations(ctx, i)}}} : TRUE

\* The body of the forEach of tick() for device i.
tickDevice(ctx, i, q, now) ==
    CHOOSE r \in {IF c.threw THEN c ELSE [c EXCEPT !.st.devices[i].lastUpdated = now] :
                  c \in {applyDefenseMitigations(a, i) : a \in {applyAttackEffects(ctx, i, q)}}} : TRUE

RECURSIVE tickDevices(_, _, _, _)
tickDevices(ctx, i, rnd, now) ==
    IF i > Len(ctx.st.devices) THEN ctx
    ELSE CHOOSE r \in {tickDevices(c, i + 1, rnd, now) :
                       c \in {tickDevice(ctx, i, Draw(rnd, i), now)}} : TRUE

tickCtx(rnd, now) ==
    CHOOSE r \in {IF c.threw THEN c ELSE [c EXCEPT !.st.lastUpdated = now] :
                  c \in {tickDevices(Ctx(state), 1, rnd, now)}} : TRUE

\* A timer callback runs after time has passed and dies with the process
\* when an exception leaves it.
TimerFires(cb, ctx, maxClock) ==
    /\ ~crashed
    /\ \E t \in timers : t.cb = cb
    /\ clock < maxClock
    /\ clock' = clock + 1
    /\ state' = ctx.st
    /\ Observe(cb, NoArg, ctx)
    /\ crashed' = ctx.threw
    /\ UNCHANGED <<tickInterval, timers, nextTimer, eventListeners, server, snapshots, client>>

\* The tick callback, with Math.random() drawn from the given sources.
tickFrom(sources, maxClock) ==
    \E rnd \in sources : TimerFires("tick", tickCtx(rnd, clock + 1), maxClock)

tick(maxClock) == tickFrom(RandomSources, maxClock)

(***************************************************************************)
(* The metric refresh and the risk-score refresh.                          *)
(***************************************************************************)
\* A mutant of updateDeviceMetricsDevice: the refresh also clears compromised.
updateDeviceMetricsDevice_Recovers(device, q, now) ==
    LET m == calculateDeviceMetrics(BASE_METRICS(device.type), 2, device.integrityRisk, q, now)
    IN  [device EXCEPT !.metrics = m, !.lastUpdated = now, !.compromised = FALSE]

updateDeviceMetricsDevice(device, q, now) ==
    LET m == calculateDeviceMetrics(BASE_METRICS(device.type),
                                    IF device.compromised THEN 3 ELSE 2,
                                    device.integrityRisk, q, now)
        m1 == IF m.failedAuth > 0 /\ 10 * q > 7 * RandDen
              THEN [m EXCEPT !.failedAuth = @ - 1]
              ELSE m
    IN  [device EXCEPT !.metrics = m1, !.lastUpdated = now]

updateDeviceMetricsCtx(rnd, now) ==
    Ctx([state EXCEPT !.devices = [i \in DOMAIN @ |->
                                      updateDeviceMetricsDevice(@[i], Draw(rnd, i), now)],
                      !.lastUpdated = now])

updateDeviceMetricsFrom(sources, maxClock) ==
    \E rnd \in sources :
        TimerFires("updateDeviceMetrics", updateDeviceMetricsCtx(rnd, clock + 1), maxClock)

updateDeviceMetrics(maxClock) == updateDeviceMetricsFrom(RandomSources, maxClock)

Abs(x) == IF x < 0 THEN -x ELSE x

\* A mutant of updateRiskScoresDevice: a change of exactly 15 is reported too.
updateRiskScoresDevice_Inclusive(ctx, i) ==
    LET d == ctx.st.devices[i]
        oldRisk == d.riskScore
        d1 == [d EXCEPT !.riskScore = calculateDeviceRisk(d)]
    IN  IF ctx.threw THEN ctx
        ELSE IF Abs(d1.riskScore - oldRisk) >= 15
             THEN emitEvent(SetDevice(ctx, i, d1), eventListeners,
                            DeviceEvent("risk_change", "info",
                                        IF d1.riskScore > oldRisk
                                        THEN "Risk level increased"
                                        ELSE "Risk level decreased", d))
             ELSE SetDevice(ctx, i, d1)

updateRiskScoresDevice(ctx, i) ==
    LET d == ctx.st.devices[i]
        oldRisk == d.riskScore
        d1 == [d EXCEPT !.riskScore = calculateDeviceRisk(d)]
    IN  IF ctx.threw THEN ctx
        ELSE IF Abs(d1.riskScore - oldRisk) > 15
             THEN emitEvent(SetDevice(ctx, i, d1), eventListeners,
                            DeviceEvent("risk_change", "info",
                                        IF d1.riskScore > oldRisk
                                        THEN "Risk level increased"
                                        ELSE "Risk level decreased", d))
             ELSE SetDevice(ctx, i, d1)

RECURSIVE updateRiskScoresFrom(_, _)
updateRiskScoresFrom(ctx, i) ==
    IF i > Len(ctx.st.devices) THEN ctx
    ELSE updateRiskScoresFrom(updateRiskScoresDevice(ctx, i), i + 1)

updateRiskScores(maxClock) ==
    TimerFires("updateRiskScores", updateRiskScoresFrom(Ctx(state), 1), maxClock)

\* The partial attack and defense states the callers send.
AttackInputs ==
    {[firmwareTamper |-> TRUE], [firmwareTamper |-> FALSE],
     [synFlood |-> 80, dictionaryAttack |-> 100, mqttFlood |-> 40]}

DefenseInputs ==
    {[signatureCheck |-> TRUE], [rateLimiting |-> TRUE, accountLockout |-> TRUE]}

\* The engine's operations, for the given bounds and inputs.
EngineNext(maxClock, maxStarts, maxListeners, attackInputs, defenseInputs) ==
    \/ TimePasses(maxClock)
    \/ \E fn \in ListenerFns : addEventListener(fn, maxListeners)
    \/ start(maxStarts)
    \/ pause
    \/ reset
    \/ \E attack \in attackInputs : setAttackState(attack)
    \/ \E defense \in defenseInputs : setDefenseState(defense)
    \/ tick(maxClock)
    \/ updateDeviceMetrics(maxClock)
    \/ updateRiskScores(maxClock)

\* The engine as its constructor leaves it.
Init == InitWith(RandomSources, <<>>)

Next == EngineNext(MaxClock, MaxStarts, MaxListeners, AttackInputs, DefenseInputs)

Spec == Init /\ [][Next]_vars

(***************************************************************************)
(* getState().  A caller holds what getState() returned: the value, and    *)
(* the objects of the engine that the returned object graph shares with    *)
(* this.state ("state": it is this.state itself; "devices", "attack",      *)
(* "defense": it holds those objects of this.state).  A write to a shared  *)
(* object is a write to the engine's state.                                *)
(***************************************************************************)
\* JSON.stringify: numbers, booleans and strings are written as they are,
\* arrays and objects member by member.
JsonStringifyDevice(d) ==
    <<d.id, d.type, d.weakPassword, d.compromised, d.integrityRisk,
      <<d.metrics.cpu, d.metrics.mem, d.metrics.netIn, d.metrics.netOut,
        d.metrics.msgRate, d.metrics.failedAuth, d.metrics.timestamp>>,
      d.lastUpdated, d.riskScore, [k \in DOMAIN d.openPorts |-> d.openPorts[k]]>>

JsonStringify(st) ==
    <<st.running, st.startedAt, st.lastUpdated, st.tickInterval,
      [i \in DOMAIN st.devices |-> JsonStringifyDevice(st.devices[i])],
      <<st.attack.synFlood, st.attack.dictionaryAttack, st.attack.mqttFlood,
        st.attack.firmwareTamper>>,
      <<st.defense.rateLimiting, st.defense.accountLockout, st.defense.signatureCheck>>>>

\* JSON.parse: a new object graph built from the text.
JsonParseDevice(t) ==
    [id |-> t[1], type |-> t[2], weakPassword |-> t[3], compromised |-> t[4],
     integrityRisk |-> t[5],
     metrics |-> [cpu |-> t[6][1], mem |-> t[6][2], netIn |-> t[6][3], netOut |-> t[6][4],
                  msgRate |-> t[6][5], failedAuth |-> t[6][6], timestamp |-> t[6][7]],
     lastUpdated |-> t[7], riskScore |-> t[8],
     openPorts |-> [k \in DOMAIN t[9] |-> t[9][k]]]

JsonParse(t) ==
    [running |-> t[1], startedAt |-> t[2], lastUpdated |-> t[3], tickInterval |-> t[4],
     devices |-> [i \in DOMAIN t[5] |-> JsonParseDevice(t[5][i])],
     attack |-> [synFlood |-> t[6][1], dictionaryAttack |-> t[6][2], mqttFlood |-> t[6][3],
                 firmwareTamper |-> t[6][4]],
     defense |-> [rateLimiting |-> t[7][1], accountLockout |-> t[7][2],
                  signatureCheck |-> t[7][3]]]

\* A mutant of getStateResult: return { ...this.state }.
getStateResult_ShallowCopy == [val |-> state, shares |-> {"devices", "attack", "defense"}]

\* return JSON.parse(JSON.stringify(this.state));
getStateResult == [val |-> JsonParse(JsonStringify(state)), shares |-> {}]

getState ==
    /\ ~crashed
    /\ Len(snapshots) < MaxSnapshots
    /\ snapshots' = Append(snapshots, getStateResult)
    /\ Observe("getState", NoArg, Ctx(state))
    /\ UNCHANGED <<state, tickInterval, timers, nextTimer, eventListeners, clock, crashed,
                   server, client>>

\* What a holder of snapshot s reads, the engine's state being st.
View(s, st) ==
    IF "state" \in s.shares THEN st
    ELSE [s.val EXCEPT !.devices = IF "devices" \in s.shares THEN st.devices ELSE @,
                       !.attack = IF "attack" \in s.shares THEN st.attack ELSE @,
                       !.defense = IF "defense" \in s.shares THEN st.defense ELSE @]

\* The writes a caller makes to a snapshot: to a field of the root object, to
\* a device and to the attack state.  Each names the object it writes to.
SnapshotWrites == {"state", "devices", "attack"}

Write(w, st) ==
    CASE w = "state"   -> [st EXCEPT !.running = ~@]
      [] w = "devices" -> [st EXCEPT !.devices[1].compromised = ~@]
      [] w = "attack"  -> [st EXCEPT !.attack.firmwareTamper = ~@]

\* The caller of getState() writes to the k-th snapshot.  The write lands in
\* the engine's state when the written object is shared with it.
mutateSnapshot(k, w) ==
    /\ ~crashed
    /\ k \in DOMAIN snapshots
    /\ LET s == snapshots[k]
           shared == "state" \in s.shares \/ w \in s.shares
       IN  /\ state' = IF shared THEN Write(w, state) ELSE state
           /\ snapshots' = IF shared THEN snapshots
                           ELSE [snapshots EXCEPT ![k].val = Write(w, @)]
    /\ Observe("mutateSnapshot", [index |-> k, write |-> w], Ctx(state))
    /\ UNCHANGED <<tickInterval, timers, nextTimer, eventListeners, clock, crashed, server, client>>

(***************************************************************************)
(* The server's socket handlers (src/apps/server/src/index.ts).            *)
(***************************************************************************)
\* The listener the server registers when it is loaded: io.emit('event:new').
ioEmitListener == [kind |-> "ioEmit", socket |-> NULL]

\* The eventHandler closure of the connection of socket c.
eventHandler(c) == [kind |-> "eventHandler", socket |-> c]

\* The members of class SimulationEngine that callers can reach.
EngineMembers ==
    {"start", "pause", "reset", "setAttackState", "setDefenseState", "getState",
     "addEventListener"}

\* io.on('connection'): the socket's eventHandler is registered with the
\* engine and its 1-second state push is scheduled.
socketConnect ==
    /\ ~crashed
    /\ nextSocket <= MaxClients
    /\ sockets' = sockets \cup {nextSocket}
    /\ nextSocket' = nextSocket + 1
    /\ eventListeners' = Append(eventListeners, eventHandler(nextSocket))
    /\ pushTimers' = pushTimers \cup {nextSocket}
    /\ Observe("connect", [socket |-> nextSocket], Ctx(state))
    /\ UNCHANGED <<state, tickInterval, timers, nextTimer, clock, crashed, snapshots, client>>

\* socket.on('disconnect'): simulation.removeEventListener(eventHandler), then
\* clearInterval(updateInterval).  The engine has no member removeEventListener:
\* the call throws a TypeError and the handler ends there.  The exception
\* leaves a socket.io callback; whether the process survives it is left open.
socketDisconnect(c) ==
    /\ ~crashed
    /\ c \in sockets
    /\ sockets' = sockets \ {c}
    /\ IF "removeEventListener" \in EngineMembers
       THEN /\ eventListeners' = SelectSeq(eventListeners, LAMBDA fn : fn # eventHandler(c))
            /\ pushTimers' = pushTimers \ {c}
            /\ threw' = FALSE
            /\ crashed' = FALSE
       ELSE /\ UNCHANGED <<eventListeners, pushTimers>>
            /\ threw' = TRUE
            /\ crashed' \in BOOLEAN
    /\ lastOp' = "disconnect"
    /\ lastArg' = [socket |-> c]
    /\ emitted' = <<>>
    /\ calls' = <<>>
    /\ UNCHANGED <<state, tickInterval, timers, nextTimer, clock, nextSocket, snapshots, client>>

\* The server once it is loaded: the engine constructed, the broadcast listener
\* registered.
ServerInit == InitWith(RandomSources, <<ioEmitListener>>)

ServerNext ==
    \/ socketConnect
    \/ \E c \in 1..MaxClients : socketDisconnect(c)
    \/ start(MaxStarts)
    \/ pause
    \/ reset
    \/ \E attack \in AttackInputs : setAttackState(attack)

SpecServer == ServerInit /\ [][ServerNext]_vars

(***************************************************************************)
(* Further specifications: the operations a group of claims is about, with *)
(* the operations that vary the states they are called in.                 *)
(***************************************************************************)
\* Listener registration and every operation that emits from a caller.
ListenersNext ==
    \/ \E fn \in ListenerFns : addEventListener(fn, MaxChain)
    \/ start(MaxStarts)
    \/ pause
    \/ reset
    \/ \E attack \in AttackInputs : setAttackState(attack)
    \/ \E defense \in DefenseInputs : setDefenseState(defense)

SpecListeners == Init /\ [][ListenersNext]_vars

\* The life cycle and the three loops.
LifecycleNext ==
    \/ TimePasses(MaxClock)
    \/ \E fn \in ListenerFns : addEventListener(fn, MaxListeners)
    \/ start(MaxStarts)
    \/ pause
    \/ reset
    \/ tick(MaxClock)
    \/ updateDeviceMetrics(MaxClock)
    \/ updateRiskScores(MaxClock)

SpecLifecycle == Init /\ [][LifecycleNext]_vars

\* The attack settings and the tick that applies them.
AttackNext ==
    \/ \E fn \in ListenerFns : addEventListener(fn, MaxListeners)
    \/ start(MaxStarts)
    \/ pause
    \/ \E attack \in AttackInputs : setAttackState(attack)
    \/ tick(MaxClock)

SpecAttack == Init /\ [][AttackNext]_vars

\* getState() and its callers, with operations that change the state between calls.
SnapshotNext ==
    \/ getState
    \/ \E k \in 1..MaxSnapshots, w \in SnapshotWrites : mutateSnapshot(k, w)
    \/ start(MaxStarts)
    \/ setAttackState([firmwareTamper |-> TRUE])

\* One device batch: the snapshots multiply the states.
SnapshotInit == InitWith({[base |-> 1, stride |-> 1]}, <<>>)

SpecSnapshot == SnapshotInit /\ [][SnapshotNext]_vars

\* The firmware-tamper toggle, the signature check and the tick between them.
TamperInputs == {[firmwareTamper |-> TRUE], [firmwareTamper |-> FALSE]}

SignatureInputs == {[signatureCheck |-> TRUE], [signatureCheck |-> FALSE]}

IntegrityNext ==
    \/ \E fn \in ListenerFns : addEventListener(fn, MaxListeners)
    \/ start(MaxStarts)
    \/ resetFrom(MixedSources)
    \/ \E attack \in TamperInputs : setAttackState(attack)
    \/ \E defense \in SignatureInputs : setDefenseState(defense)
    \/ tick(MaxTicks)

IntegrityInit == InitWith(MixedSources, <<>>)

SpecIntegrity == IntegrityInit /\ [][IntegrityNext]_vars

\* The dictionary attack, the account lockout, and the loops that run under them.
DictionaryInputs == {[dictionaryAttack |-> 100], [dictionaryAttack |-> 0]}

LockoutInputs == {[accountLockout |-> TRUE]}

\* A device batch with two weak-password door locks among five devices.
CompromiseSources == {[base |-> 2, stride |-> 1]}

CompromiseNext ==
    \/ start(MaxRestarts)
    \/ pause
    \/ resetFrom(CompromiseSources)
    \/ \E attack \in DictionaryInputs : setAttackState(attack)
    \/ \E defense \in LockoutInputs : setDefenseState(defense)
    \/ tickFrom(UniformSources, MaxTicks)
    \/ updateDeviceMetricsFrom(UniformSources, MaxTicks)
    \/ updateRiskScores(MaxTicks)

\* Devices with and without weak passwords, and one listener.
CompromiseInit == InitWith(CompromiseSources, <<[kind |-> "listener", socket |-> NULL]>>)

SpecCompromise == CompromiseInit /\ [][CompromiseNext]_vars

\* The tick loop under fair scheduling, with every random draw of a tick
\* succeeding: a timer that stays scheduled fires.  The tick may fire once
\* more after the other callbacks have used up the modelled time.
tickSucceeding == tickFrom(SucceedingSources, MaxClock + 1)

CompromiseLiveNext ==
    \/ start(MaxRestarts)
    \/ pause
    \/ \E attack \in DictionaryInputs : setAttackState(attack)
    \/ \E defense \in DefenseInputs : setDefenseState(defense)
    \/ tickSucceeding
    \/ updateDeviceMetricsFrom(UniformSources, MaxClock)
    \/ updateRiskScores(MaxClock)

SpecCompromiseLive ==
    CompromiseInit /\ [][CompromiseLiveNext]_vars /\ WF_vars(tickSucceeding)

\* Consecutive ticks under SYN flood and MQTT flood at full intensity, with
\* no metric refresh between them.
FloodInputs == {[synFlood |-> 100, mqttFlood |-> 100]}

FloodNext ==
    \/ start(MaxRestarts)
    \/ \E attack \in FloodInputs : setAttackState(attack)
    \/ tickFrom(UniformSources, MaxFloodTicks)

SpecFlood == Init /\ [][FloodNext]_vars

\* Ticks under attack with rate limiting and account lockout switched on and
\* off between them.
MitigationAttackInputs == {[synFlood |-> 100, mqttFlood |-> 100, dictionaryAttack |-> 40]}

MitigationInputs ==
    {[rateLimiting |-> TRUE, accountLockout |-> TRUE],
     [rateLimiting |-> FALSE, accountLockout |-> FALSE]}

MitigationNext ==
    \/ start(MaxRestarts)
    \/ \E attack \in MitigationAttackInputs : setAttackState(attack)
    \/ \E defense \in MitigationInputs : setDefenseState(defense)
    \/ tickFrom(UniformSources, MaxTicks + 1)

SpecMitigation == CompromiseInit /\ [][MitigationNext]_vars

(***************************************************************************)
(* The commands of the transport layer (src/apps/server/src/index.ts): the *)
(* HTTP routes and the socket messages that set the attack and the defense *)
(* state.  A JSON value of a request body is a record of its typeof and    *)
(* its value.                                                              *)
(***************************************************************************)
JsonNumber(n) == [type |-> "number", value |-> n]
JsonString == [type |-> "string", value |-> 0]

\* The value a destructured property has when the body does not contain it.
\* A numeric attack field that is assigned undefined holds UNDEFINED: like
\* undefined it is no number of 0..100 and every test `> 0` on it is false.
UNDEFINED == -1

AttackIntensityFields == {"synFlood", "dictionaryAttack", "mqttFlood"}

\* The intensities sent to POST /api/attack/syn-flood, /dictionary, /mqtt-flood.
RequestIntensities == {JsonNumber(60), JsonNumber(150), JsonNumber(-5), JsonString}

\* POST /api/attack/syn-flood, /dictionary and /mqtt-flood: status 400 unless
\* intensity is a number of 0..100, else setAttackState({ <field>: intensity }).
postAttack(field, intensity) ==
    /\ ~crashed
    /\ LET ctx == IF intensity.type # "number" \/ intensity.value < 0 \/ intensity.value > 100
                  THEN Ctx(state)
                  ELSE setAttackStateCtx([f \in {field} |-> intensity.value])
       IN  /\ state' = ctx.st
           /\ Observe("POST /api/attack", [field |-> field, intensity |-> intensity], ctx)
    /\ UNCHANGED <<tickInterval, timers, nextTimer, eventListeners, clock, crashed, server, snapshots, client>>

EmptyBody == [f \in {} |-> NULL]

\* The bodies sent to POST /api/sim/attacks.  A body with some fields and
\* without firmwareTamper stores undefined in the boolean field; the bodies
\* here supply firmwareTamper whenever they supply anything.
SimAttackBodies ==
    {EmptyBody,
     [synFlood |-> 60, firmwareTamper |-> TRUE],
     [dictionaryAttack |-> 150, mqttFlood |-> 30, firmwareTamper |-> FALSE],
     [synFlood |-> 0, dictionaryAttack |-> 0, mqttFlood |-> 0, firmwareTamper |-> FALSE]}

\* { synFlood, dictionaryAttack, mqttFlood, firmwareTamper }: the object the
\* route builds has all four keys, the ones the body lacks with undefined.
SimAttackPartial(body) ==
    [synFlood |-> IF "synFlood" \in DOMAIN body THEN body.synFlood ELSE UNDEFINED,
     dictionaryAttack |-> IF "dictionaryAttack" \in DOMAIN body
                          THEN body.dictionaryAttack ELSE UNDEFINED,
     mqttFlood |-> IF "mqttFlood" \in DOMAIN body THEN body.mqttFlood ELSE UNDEFINED,
     firmwareTamper |-> body.firmwareTamper]

\* POST /api/sim/attacks: status 400 when the body has none of the four
\* fields, else setAttackState of the four-key object; the values are not
\* validated.
postSimAttacks(body) ==
    /\ ~crashed
    /\ LET ctx == IF DOMAIN body \cap (AttackIntensityFields \cup {"firmwareTamper"}) # {}
                  THEN setAttackStateCtx(SimAttackPartial(body))
                  ELSE Ctx(state)
       IN  /\ state' = ctx.st
           /\ Observe("POST /api/sim/attacks", [body |-> body], ctx)
    /\ UNCHANGED <<tickInterval, timers, nextTimer, eventListeners, clock, crashed, server, snapshots, client>>

\* The bodies sent to POST /api/sim/defenses: all three fields or none (a
\* field the body lacks stores undefined in a boolean field).
SimDefenseBodies ==
    {EmptyBody,
     [rateLimiting |-> TRUE, accountLockout |-> FALSE, signatureCheck |-> TRUE],
     [rateLimiting |-> FALSE, accountLockout |-> TRUE, signatureCheck |-> FALSE]}

\* POST /api/sim/defenses: status 400 when the body has none of the three
\* fields, else setDefenseState({ rateLimiting, accountLockout, signatureCheck }).
postSimDefenses(body) ==
    /\ ~crashed
    /\ LET ctx == IF DOMAIN body \cap {"rateLimiting", "accountLockout", "signatureCheck"} # {}
                  THEN setDefenseStateCtx([rateLimiting |-> body.rateLimiting,
                                           accountLockout |-> body.accountLockout,
                                           signatureCheck |-> body.signatureCheck])
                  ELSE Ctx(state)
       IN  /\ state' = ctx.st
           /\ Observe("POST /api/sim/defenses", [body |-> body], ctx)
    /\ UNCHANGED <<tickInterval, timers, nextTimer, eventListeners, clock, crashed, server, snapshots, client>>

\* The payloads of the 'setAttack' message: numbers, in and out of 0..100.
SocketAttackInputs == {[synFlood |-> 150], [dictionaryAttack |-> 60], [mqttFlood |-> -5]}

\* socket.on('setAttack'): setAttackState(attack) with the payload as it came,
\* then the state is sent back to the socket.
socketSetAttack(c, attack) ==
    /\ ~crashed
    /\ c \in sockets
    /\ LET ctx == setAttackStateCtx(attack)
       IN  /\ state' = ctx.st
           /\ Observe("socket setAttack", [socket |-> c, attack |-> attack], ctx)
    /\ UNCHANGED <<tickInterval, timers, nextTimer, eventListeners, clock, crashed, server, snapshots, client>>

TransportInit == InitWith(CompromiseSources, <<ioEmitListener>>)

TransportNext ==
    \/ socketConnect
    \/ \E field \in AttackIntensityFields, intensity \in RequestIntensities :
          postAttack(field, intensity)
    \/ \E body \in SimAttackBodies : postSimAttacks(body)
    \/ \E body \in SimDefenseBodies : postSimDefenses(body)
    \/ \E c \in 1..MaxClients, attack \in SocketAttackInputs : socketSetAttack(c, attack)

SpecTransport == TransportInit /\ [][TransportNext]_vars

\* The risk refresh among the operations that change the fields the risk
\* score is computed from.
RiskAttackInputs ==
    {[firmwareTamper |-> TRUE], [firmwareTamper |-> FALSE], [dictionaryAttack |-> 100]}

RiskNext ==
    \/ start(MaxRestarts)
    \/ pause
    \/ \E attack \in RiskAttackInputs : setAttackState(attack)
    \/ \E defense \in LockoutInputs : setDefenseState(defense)
    \/ tickFrom(UniformSources, MaxTicks)
    \/ updateDeviceMetricsFrom(UniformSources, MaxTicks)
    \/ updateRiskScores(MaxTicks)

SpecRisk == CompromiseInit /\ [][RiskNext]_vars

\* calculateDeviceRisk on its own: the device it is given is drawn from the
\* combinations of the fields it reads, with the metrics on and next to the
\* thresholds.
RiskDevices ==
    {[type |-> t, weakPassword |-> w, compromised |-> c, integrityRisk |-> r,
      metrics |-> [cpu |-> cpu * Scale, netIn |-> netIn * Scale, netOut |-> netOut * Scale,
                   failedAuth |-> fa]] :
        t \in {DEVICE_TYPES[k] : k \in DOMAIN DEVICE_TYPES}, w \in BOOLEAN, c \in BOOLEAN,
        r \in BOOLEAN, cpu \in {50, 51, 80, 81, 100}, netIn \in {200, 201, 500, 501},
        netOut \in {0, 201, 501}, fa \in {0, 1, 5, 6}}

RiskFunctionInit ==
    /\ \E rnd \in CompromiseSources : state = createInitialState(rnd, 0)
    /\ tickInterval = NULL
    /\ timers = {}
    /\ nextTimer = 1
    /\ eventListeners = <<>>
    /\ clock = 0
    /\ crashed = FALSE
    /\ sockets = {}
    /\ nextSocket = 1
    /\ pushTimers = {}
    /\ snapshots = <<>>
    /\ lastOp = "device"
    /\ \E device \in RiskDevices : lastArg = [device |-> device]
    /\ emitted = <<>>
    /\ calls = <<>>
    /\ threw = FALSE
    /\ useStore = initialState
    /\ useSimulationStore = initialSimulationStore

\* this.calculateDeviceRisk(device) for the device drawn.
callCalculateDeviceRisk ==
    /\ lastOp = "device"
    /\ lastOp' = "calculateDeviceRisk"
    /\ lastArg' = [device |-> lastArg.device, riskScore |-> calculateDeviceRisk(lastArg.device)]
    /\ UNCHANGED <<state, tickInterval, timers, nextTimer, eventListeners, clock, crashed,
                   server, snapshots, client, emitted, calls, threw>>

RiskFunctionNext == callCalculateDeviceRisk

SpecRiskFunction == RiskFunctionInit /\ [][RiskFunctionNext]_vars

\* SYN floods of low, middle and high intensity.
SynFloodInputs == {[synFlood |-> 20], [synFlood |-> 50], [synFlood |-> 80]}

SynFloodNext ==
    \/ start(MaxRestarts)
    \/ \E attack \in SynFloodInputs : setAttackState(attack)
    \/ tickFrom(UniformSources, MaxTicks)

SpecSynFlood == CompromiseInit /\ [][SynFloodNext]_vars

(***************************************************************************)
(* The web client's event log (src/apps/web/src/store/index.ts).           *)
(***************************************************************************)
\* The event that arrives next: its id is one the log has not seen.
NextEvent(events) == [id |-> IF Len(events) = 0 THEN 1 ELSE events[1].id + 1]

\* seq.slice(0, n)
Slice(seq, n) == SubSeq(seq, 1, Min(n, Len(seq)))

\* socket.on('event'): events: [event, ...state.events].slice(0, 1000)
socketOnEvent ==
    /\ NextEvent(useStore.events).id <= MaxEvents
    /\ useStore' = [useStore EXCEPT !.events = Slice(<<NextEvent(useStore.events)>> \o @, 1000)]
    /\ Observe("socket.on('event')", [event |-> NextEvent(useStore.events)], Ctx(state))
    /\ UNCHANGED <<state, tickInterval, timers, nextTimer, eventListeners, clock, crashed,
                   server, snapshots, useSimulationStore>>

\* addEvent: events: [event, ...prev.events].slice(0, 200)
addEvent ==
    /\ NextEvent(useStore.events).id <= MaxEvents
    /\ useStore' = [useStore EXCEPT !.events = Slice(<<NextEvent(useStore.events)>> \o @, 200)]
    /\ Observe("addEvent", [event |-> NextEvent(useStore.events)], Ctx(state))
    /\ UNCHANGED <<state, tickInterval, timers, nextTimer, eventListeners, clock, crashed,
                   server, snapshots, useSimulationStore>>

EventLogNext ==
    \/ socketOnEvent
    \/ addEvent

SpecEventLog == CompromiseInit /\ [][EventLogNext]_vars

(***************************************************************************)
(* The web client's simulation store                                       *)
(* (src/apps/web/src/store/useSimulationStore.ts) and, as the actions      *)
(* named service..., the version of the same store that talks to the       *)
(* server through SimulationService (src/unnamed/part_002).                *)
(***************************************************************************)
\* The devices a client holds: an id and one field that an update changes.
ClientDevices == [id : 1..2, riskScore : {10, 90}]

\* The device lists the persist middleware restores when the store is created.
ClientDeviceLists ==
    {<<>>} \cup {<<d>> : d \in ClientDevices}
           \cup {<<d1, d2>> : d1 \in {d \in ClientDevices : d.id = 1},
                              d2 \in {d \in ClientDevices : d.id = 2}}

ClientInit ==
    /\ \E rnd \in CompromiseSources : state = createInitialState(rnd, 0)
    /\ tickInterval = NULL
    /\ timers = {}
    /\ nextTimer = 1
    /\ eventListeners = <<>>
    /\ clock = 0
    /\ crashed = FALSE
    /\ sockets = {}
    /\ nextSocket = 1
    /\ pushTimers = {}
    /\ snapshots = <<>>
    /\ lastOp = "new"
    /\ lastArg = NoArg
    /\ emitted = <<>>
    /\ calls = <<>>
    /\ threw = FALSE
    /\ useStore = initialState
    /\ \E devices \in ClientDeviceLists :
          useSimulationStore = [initialSimulationStore EXCEPT !.devices = devices]

ClientStep(op, arg, store) ==
    /\ useSimulationStore' = store
    /\ Observe(op, arg, Ctx(state))
    /\ UNCHANGED <<state, tickInterval, timers, nextTimer, eventListeners, clock, crashed,
                   server, snapshots, useStore>>

\* connect(): set({ socket })
connect ==
    /\ ~useSimulationStore.socket
    /\ ClientStep("connect", NoArg, [useSimulationStore EXCEPT !.socket = TRUE])

\* selectDevice: set({ selectedDeviceId: deviceId })
selectDevice(deviceId) ==
    ClientStep("selectDevice", [deviceId |-> deviceId],
               [useSimulationStore EXCEPT !.selectedDeviceId = deviceId])

\* devices: state.devices.map((d) => (d.id === device.id ? device : d))
updateDevice(device) ==
    ClientStep("updateDevice", [device |-> device, store |-> "useSimulationStore.ts"],
               [useSimulationStore EXCEPT !.devices =
                   [k \in DOMAIN @ |-> IF @[k].id = device.id THEN device ELSE @[k]]])

\* part_002: devices.map((d) => d.id === device.id ? { ...d, ...device } : d)
serviceUpdateDevice(device) ==
    ClientStep("updateDevice", [device |-> device, store |-> "part_002"],
               [useSimulationStore EXCEPT !.devices =
                   [k \in DOMAIN @ |-> IF @[k].id = device.id THEN Merge(@[k], device) ELSE @[k]]])

\* startSimulation: with a socket, socket.emit('start') and isSimulationRunning: true.
startSimulation ==
    IF useSimulationStore.socket
    THEN ClientStep("startSimulation", [sent |-> <<"start">>, store |-> "useSimulationStore.ts"],
                    [useSimulationStore EXCEPT !.isSimulationRunning = TRUE])
    ELSE ClientStep("startSimulation", [sent |-> <<>>, store |-> "useSimulationStore.ts"],
                    useSimulationStore)

\* resetSimulation: with a socket, socket.emit('reset') and
\* set({ isSimulationRunning: false, events: [], attackState, defenseState }).
resetSimulation ==
    IF useSimulationStore.socket
    THEN ClientStep("resetSimulation", [sent |-> <<"reset">>, store |-> "useSimulationStore.ts"],
                    [useSimulationStore EXCEPT !.isSimulationRunning = FALSE, !.events = <<>>])
    ELSE ClientStep("resetSimulation", [sent |-> <<>>, store |-> "useSimulationStore.ts"],
                    useSimulationStore)

\* part_002: simulationService.resetSimulation(), then
\* set({ devices: [], selectedDeviceId: null, ..., isSimulationRunning: false }).
serviceResetSimulation ==
    ClientStep("resetSimulation", [sent |-> <<"reset">>, store |-> "part_002"],
               [useSimulationStore EXCEPT !.devices = <<>>, !.selectedDeviceId = NULL,
                                          !.isSimulationRunning = FALSE])

ClientNext ==
    \/ connect
    \/ \E deviceId \in {NULL, 1, 2} : selectDevice(deviceId)
    \/ \E device \in ClientDevices : updateDevice(device)
    \/ \E device \in ClientDevices : serviceUpdateDevice(device)
    \/ startSimulation
    \/ resetSimulation
    \/ serviceResetSimulation

SpecClient == ClientInit /\ [][ClientNext]_vars

\* Ticks with every attack at full intensity and the signature check on, so
\* that one device can see every kind of event in one tick.
OrderAttackInputs ==
    {[synFlood |-> 100, dictionaryAttack |-> 100, mqttFlood |-> 100, firmwareTamper |-> TRUE]}

OrderDefenseInputs == {[signatureCheck |-> TRUE]}

OrderNext ==
    \/ start(MaxRestarts)
    \/ \E attack \in OrderAttackInputs : setAttackState(attack)
    \/ \E defense \in OrderDefenseInputs : setDefenseState(defense)
    \/ tickFrom(UniformSources, MaxTicks)

SpecOrder == CompromiseInit /\ [][OrderNext]_vars

(***************************************************************************)
(* The claims.                                                             *)
(***************************************************************************)
\* The three periodic loops, by the names of their callbacks.
LoopOps == {"tick", "updateDeviceMetrics", "updateRiskScores"}

\* C1: after pause() on a Running engine running is false, and none of the
\* three periodic loops executes again until start() is next called, that is,
\* while running stays false.
C1_PauseStopsAllLoops ==
    [][/\ (lastOp' = "pause" => ~state'.running)
       /\ (lastOp' \in LoopOps => state.running)]_vars

\* What C2 says stays as constructed: the devices' metrics, riskScore and
\* lastUpdated, and the state's lastUpdated.
Built(st) ==
    <<[i \in DOMAIN st.devices |->
          <<st.devices[i].metrics, st.devices[i].riskScore, st.devices[i].lastUpdated>>],
      st.lastUpdated>>

\* C2: after reset() has returned, no step other than a start() or another
\* reset() changes the metrics, riskScore or lastUpdated of the freshly
\* constructed state.
C2_FreshStateUntouched ==
    [][(lastOp = "reset" /\ ~threw /\ lastOp' \notin {"start", "reset"})
          => Built(state') = Built(state)]_vars

\* C4: a tick completes whatever the listeners do: after it every device's
\* lastUpdated and the state's lastUpdated carry the time of the tick.
C4_TickCompletes ==
    lastOp = "tick" =>
        /\ state.lastUpdated = clock
        /\ \A i \in DOMAIN state.devices : state.devices[i].lastUpdated = clock

\* The shape reset() is to yield.
FreshShape(st) ==
    /\ st.running = FALSE
    /\ Len(st.devices) = 5
    /\ \A i \in DOMAIN st.devices :
          ~st.devices[i].compromised /\ ~st.devices[i].integrityRisk
    /\ st.attack = [synFlood |-> 0, dictionaryAttack |-> 0, mqttFlood |-> 0,
                    firmwareTamper |-> FALSE]
    /\ st.defense = [rateLimiting |-> FALSE, accountLockout |-> FALSE,
                     signatureCheck |-> FALSE]

\* C8: from every reachable state reset() yields running = false, 5 devices
\* that are neither compromised nor at integrity risk, and zeroed attack and
\* defense states.
C8_ResetYieldsFreshShape == lastOp = "reset" => FreshShape(state)

Messages(events) == [k \in DOMAIN events |-> events[k].message]

\* C9: reset() on a Running engine emits "Simulation paused" and then
\* "Simulation reset to initial state"; on a Stopped engine only the latter.
C9_ResetEmitsPauseThenReset ==
    [][lastOp' = "reset" =>
          Messages(emitted') =
              IF state.running
              THEN <<"Simulation paused", "Simulation reset to initial state">>
              ELSE <<"Simulation reset to initial state">>]_vars

CallsOf(fn, message) == Cardinality({c \in DOMAIN calls : calls[c] = <<fn, message>>})

Occurrences(seq, x) == Cardinality({k \in DOMAIN seq : seq[k] = x})

\* C3: a listener registered after one that throws is still called exactly
\* once, per registration, with every event the operation emitted.
C3_ThrowDoesNotStopDelivery ==
    \A k \in DOMAIN eventListeners, e \in DOMAIN emitted :
        (\E j \in 1..(k - 1) : Throws(eventListeners[j])) =>
            CallsOf(eventListeners[k], emitted[e].message) =
                Occurrences(eventListeners, eventListeners[k])
                    * Occurrences(Messages(emitted), emitted[e].message)

\* C5: once a client's socket has disconnected, its eventHandler is no longer
\* registered and is not called.
C5_DisconnectRemovesListener ==
    \A c \in 1..MaxClients :
        (c < nextSocket /\ c \notin sockets) =>
            /\ Occurrences(eventListeners, eventHandler(c)) = 0
            /\ \A k \in DOMAIN calls : calls[k][1] # eventHandler(c)

C7_StartWhileRunningIsNoOp ==
    [][(lastOp' = "start" /\ state.running) =>
          /\ UNCHANGED <<state, tickInterval, timers, nextTimer, eventListeners>>
          /\ emitted' = <<>>
          /\ calls' = <<>>
          /\ ~threw']_vars

\* C7 witness: start() was called on an engine that had started earlier and
\* is still running with the startedAt of that earlier start.
C7_Witness ==
    /\ lastOp = "start"
    /\ emitted = <<>>
    /\ state.running
    /\ state.startedAt < clock
    /\ tickInterval # NULL

TamperingEvent ==
    SystemEvent("tampering", "critical", "Firmware tampering detected across all devices!")

\* C10: setAttackState with firmwareTamper = true leaves every device with
\* integrityRisk = true and emits exactly one event, the critical tampering
\* event, whether the engine is Running or Stopped.
C10_TamperSetsIntegrityRiskAtOnce ==
    [][(lastOp' = "setAttackState" /\ "firmwareTamper" \in DOMAIN lastArg'
            /\ lastArg'.firmwareTamper) =>
          /\ \A i \in DOMAIN state'.devices : state'.devices[i].integrityRisk
          /\ emitted' = <<TamperingEvent>>
          /\ state'.running = state.running]_vars

\* C10 witness: the call was made on a Running engine after a tick, with a
\* listener registered, and every device is at integrity risk.
C10_Witness ==
    /\ lastOp = "setAttackState"
    /\ "firmwareTamper" \in DOMAIN lastArg
    /\ lastArg.firmwareTamper
    /\ state.running
    /\ clock > 0
    /\ Len(calls) = 1
    /\ \A i \in DOMAIN state.devices : state.devices[i].integrityRisk

Devices == 1..DeviceCount

EmittedFor(type, i) == {k \in DOMAIN emitted : emitted[k].type = type /\ emitted[k].deviceId = i}

\* C11: a device's integrityRisk goes from true to false only in a reset or
\* in a tick run with defense.signatureCheck enabled.
C11_OnlySignatureCheckClears ==
    [][\A i \in Devices :
          (state.devices[i].integrityRisk /\ ~state'.devices[i].integrityRisk) =>
              \/ lastOp' = "reset"
              \/ lastOp' = "tick" /\ state.defense.signatureCheck]_vars

\* C12: a device's integrityRisk goes from false to true only in a tick run
\* with attack.firmwareTamper true, which emits the device's tampering event,
\* or in a setAttackState call carrying firmwareTamper = true; and while
\* attack.firmwareTamper is false no device has integrityRisk.
C12_OnlyTamperSets ==
    [][/\ \A i \in Devices :
             (~state.devices[i].integrityRisk /\ state'.devices[i].integrityRisk) =>
                 \/ /\ lastOp' = "tick"
                    /\ state.attack.firmwareTamper
                    /\ EmittedFor("tampering", i)' # {}
                 \/ /\ lastOp' = "setAttackState"
                    /\ "firmwareTamper" \in DOMAIN lastArg'
                    /\ lastArg'.firmwareTamper
       /\ ~state'.attack.firmwareTamper =>
             \A i \in Devices : ~state'.devices[i].integrityRisk]_vars

\* C12 witness: a tick under firmware tampering has flagged one device, with
\* its tampering event, and left another unflagged.
C12_Witness ==
    /\ lastOp = "tick"
    /\ state.attack.firmwareTamper
    /\ ~state.defense.signatureCheck
    /\ \E i, j \in Devices :
          /\ state.devices[i].integrityRisk
          /\ EmittedFor("tampering", i) # {}
          /\ ~state.devices[j].integrityRisk

\* C13: a device becomes compromised only in a tick run with
\* attack.dictionaryAttack > 0 and only if it has a weak password, so every
\* compromised device has weakPassword.
C13_CompromisedHasWeakPassword ==
    [][/\ \A i \in Devices :
             (~state.devices[i].compromised /\ state'.devices[i].compromised) =>
                 /\ lastOp' = "tick"
                 /\ state.attack.dictionaryAttack > 0
                 /\ state.devices[i].weakPassword
       /\ \A i \in Devices :
             state'.devices[i].compromised => state'.devices[i].weakPassword]_vars

\* C13 witness: a tick under dictionary attack has compromised a weak-password
\* device and only raised failedAuth on a device without one.
C13_Witness ==
    /\ lastOp = "tick"
    /\ state.attack.dictionaryAttack > 0
    /\ \E i, j \in Devices :
          /\ state.devices[i].compromised
          /\ EmittedFor("compromise", i) # {}
          /\ ~state.devices[j].weakPassword
          /\ ~state.devices[j].compromised
          /\ state.devices[j].metrics.failedAuth > 0

\* C14: a compromised device stays compromised through every operation
\* other than reset().
C14_CompromisedIsOneWay ==
    [][\A i \in Devices :
          (state.devices[i].compromised /\ ~state'.devices[i].compromised) =>
              lastOp' = "reset"]_vars

\* C14 witness: a device compromised in an earlier tick is still compromised
\* after the attack was switched off and a metric refresh ran on a paused engine.
C14_Witness ==
    /\ lastOp = "updateDeviceMetrics"
    /\ state.attack.dictionaryAttack = 0
    /\ ~state.running
    /\ \E i \in Devices : state.devices[i].compromised

\* C16: an operation emits a compromise event for a device exactly when it
\* changes that device's compromised flag from false to true, and then
\* exactly one; with the flag staying true until a reset, that is at most one
\* compromise event per device between two resets.
C16_OneCompromiseEventPerDevice ==
    [][\A i \in Devices :
          /\ Cardinality(EmittedFor("compromise", i)') =
                IF ~state.devices[i].compromised /\ state'.devices[i].compromised
                THEN 1 ELSE 0
          /\ (EmittedFor("compromise", i)' # {}) => lastOp' = "tick"
          /\ state.devices[i].compromised =>
                (state'.devices[i].compromised \/ lastOp' = "reset")]_vars

\* C16 witness: a tick under dictionary attack has run over a device that an
\* earlier tick compromised, and has emitted no compromise event for it.
C16_Witness ==
    /\ lastOp = "tick"
    /\ state.attack.dictionaryAttack > 0
    /\ clock >= 2
    /\ \E i \in Devices :
          /\ state.devices[i].compromised
          /\ EmittedFor("compromise", i) = {}

\* C15: while the engine is Running under attack.dictionaryAttack = 100 with
\* every random draw succeeding, the weak-password devices that are not
\* compromised are eventually all compromised, unless the engine stops
\* running or the attack is changed first; the defense toggles and the metric and risk
\* refreshes do not prevent it.
UnderDictionaryAttack == state.running /\ ~crashed /\ state.attack.dictionaryAttack = 100

C17_RiskScoreInRange ==
    \A i \in Devices : 0 <= state.devices[i].riskScore /\ state.devices[i].riskScore <= 100

\* C17 witness: the risk refresh has scored a compromised device whose
\* contributions add up to more than 100.
C17_Witness ==
    /\ lastOp = "updateRiskScores"
    /\ \E i \in Devices :
          /\ state.devices[i].compromised
          /\ riskSum(state.devices[i]) > 100
          /\ state.devices[i].riskScore = 100

\* C18: every device's metrics.cpu and metrics.mem are between 0 and 100.
C18_CpuMemInRange ==
    \A i \in Devices :
        /\ 0 <= state.devices[i].metrics.cpu /\ state.devices[i].metrics.cpu <= 100 * Scale
        /\ 0 <= state.devices[i].metrics.mem /\ state.devices[i].metrics.mem <= 100 * Scale

\* C19: a tick that ran to its end with defense.rateLimiting enabled leaves
\* every device with netIn <= 1000 and msgRate <= 100.
C19_RateLimitingCaps ==
    (lastOp = "tick" /\ ~threw /\ state.defense.rateLimiting) =>
        \A i \in Devices :
            /\ state.devices[i].metrics.netIn <= 1000 * Scale
            /\ state.devices[i].metrics.msgRate <= 100 * Scale

\* C19 witness: after two ticks under flood, a third tick with rate limiting
\* has left a device at the caps.
C19_Witness ==
    /\ lastOp = "tick"
    /\ ~threw
    /\ clock >= 3
    /\ state.defense.rateLimiting
    /\ \E i \in Devices :
          /\ state.devices[i].metrics.netIn = 1000 * Scale
          /\ state.devices[i].metrics.msgRate = 100 * Scale

\* What the dictionary-attack step of a tick makes of a device's failedAuth.
failedAuthAttacked(st, i) ==
    st.devices[i].metrics.failedAuth
        + (IF st.attack.dictionaryAttack > 0 /\ ~st.devices[i].compromised
           THEN (5 * st.attack.dictionaryAttack) \div 100
           ELSE 0)

C21_SignatureCheckRestores ==
    [][(lastOp' = "tick" /\ ~threw' /\ state.defense.signatureCheck) =>
          \A i \in Devices :
              /\ ~state'.devices[i].integrityRisk
              /\ Cardinality(EmittedFor("defense", i)') =
                    IF state.devices[i].integrityRisk \/ EmittedFor("tampering", i)' # {}
                    THEN 1 ELSE 0
              /\ \A k \in EmittedFor("defense", i)' : emitted'[k].severity = "info"]_vars

\* C21 witness: in one tick under firmware tampering with the signature check
\* enabled, a device was tampered with and restored, and another was neither.
C21_Witness ==
    /\ lastOp = "tick"
    /\ ~threw
    /\ state.attack.firmwareTamper
    /\ state.defense.signatureCheck
    /\ \E i, j \in Devices :
          /\ EmittedFor("tampering", i) # {}
          /\ EmittedFor("defense", i) # {}
          /\ ~state.devices[i].integrityRisk
          /\ EmittedFor("defense", j) = {}

\* C22: whatever commands arrive through the HTTP routes and the socket
\* messages, attack.synFlood, attack.dictionaryAttack and attack.mqttFlood are
\* each a number of 0..100.
C22_IntensitiesInRange ==
    \A f \in AttackIntensityFields : state.attack[f] \in 0..100

\* C24: a command sent through POST /api/sim/attacks or POST /api/sim/defenses
\* that supplies only some of the fields leaves every field it does not supply
\* at its previous value in the engine's attack and defense state.
C24_AggregateKeepsUnsupplied ==
    [][/\ lastOp' = "POST /api/sim/attacks" =>
             /\ \A f \in DOMAIN state.attack \ DOMAIN lastArg'.body :
                   state'.attack[f] = state.attack[f]
             /\ state'.defense = state.defense
       /\ lastOp' = "POST /api/sim/defenses" =>
             /\ \A f \in DOMAIN state.defense \ DOMAIN lastArg'.body :
                   state'.defense[f] = state.defense[f]
             /\ state'.attack = state.attack]_vars

\* C23: setAttackState(partial) and setDefenseState(partial) are partial
\* merges: a field of the partial takes the partial's value, every other field
\* of the attack state and of the defense state keeps its previous value.
C23_PartialMerge ==
    [][/\ lastOp' = "setAttackState" =>
             /\ DOMAIN state'.attack = DOMAIN state.attack
             /\ \A f \in DOMAIN state.attack :
                   state'.attack[f] = IF f \in DOMAIN lastArg' THEN lastArg'[f] ELSE state.attack[f]
             /\ state'.defense = state.defense
       /\ lastOp' = "setDefenseState" =>
             /\ DOMAIN state'.defense = DOMAIN state.defense
             /\ \A f \in DOMAIN state.defense :
                   state'.defense[f] = IF f \in DOMAIN lastArg' THEN lastArg'[f] ELSE state.defense[f]
             /\ state'.attack = state.attack]_vars

\* A partial with firmwareTamper alone has been merged into an attack state
\* whose intensities were set before, with defenses switched on before.
C23_Witness ==
    /\ lastOp = "setAttackState"
    /\ DOMAIN lastArg = {"firmwareTamper"}
    /\ state.attack.firmwareTamper
    /\ state.attack.synFlood = 80 /\ state.attack.mqttFlood = 40
    /\ state.defense.rateLimiting

\* C25: setDefenseState changes no device, also when it switches the signature
\* check on while devices have integrityRisk set; it emits exactly one info
\* event when the partial has signatureCheck and none otherwise.
C25_SetDefenseLeavesDevices ==
    [][lastOp' = "setDefenseState" =>
          /\ state'.devices = state.devices
          /\ Len(emitted') = IF "signatureCheck" \in DOMAIN lastArg' THEN 1 ELSE 0
          /\ \A k \in DOMAIN emitted' :
                emitted'[k].type = "info" /\ emitted'[k].severity = "info"]_vars

\* The signature check has been switched on while every device was tampered.
C25_Witness ==
    /\ lastOp = "setDefenseState"
    /\ "signatureCheck" \in DOMAIN lastArg
    /\ state.defense.signatureCheck
    /\ \A i \in Devices : state.devices[i].integrityRisk
    /\ Len(emitted) = 1

\* The risk formula as the specification words it, on metrics in units of
\* 1/Scale.
BaseOf(type) ==
    CASE type = "door_lock" -> 60
      [] type = "ip_camera" -> 45
      [] type = "cctv" -> 40
      [] type = "thermostat" -> 30
      [] type = "smart_bulb" -> 25

RiskFormula(d) ==
    LET sum == BaseOf(d.type)
               + (IF d.weakPassword THEN 20 ELSE 0)
               + (IF d.metrics.cpu > 80 * Scale THEN 15
                  ELSE IF d.metrics.cpu > 50 * Scale THEN 7 ELSE 0)
               + (IF d.metrics.netIn > 500 * Scale \/ d.metrics.netOut > 500 * Scale THEN 15
                  ELSE IF d.metrics.netIn > 200 * Scale \/ d.metrics.netOut > 200 * Scale THEN 7
                  ELSE 0)
               + (IF d.metrics.failedAuth > 5 THEN 20
                  ELSE IF d.metrics.failedAuth > 0 THEN 5 ELSE 0)
               + (IF d.compromised THEN 30 ELSE 0)
               + (IF d.integrityRisk THEN 25 ELSE 0)
    IN  IF sum > 100 THEN 100 ELSE sum

\* C26: tick, metric refresh, setAttackState, setDefenseState, start and
\* pause leave every riskScore unchanged, and right after a completed risk
\* refresh each riskScore equals the risk formula applied to the device's fields.
C26_RiskScoreOnlyRecomputed ==
    [][/\ lastOp' # "updateRiskScores" =>
             \A i \in Devices : state'.devices[i].riskScore = state.devices[i].riskScore
       /\ (lastOp' = "updateRiskScores" /\ ~threw') =>
             \A i \in Devices : state'.devices[i].riskScore = RiskFormula(state'.devices[i])]_vars

\* A tick has ended with a compromised device whose riskScore is still the
\* one computed before the compromise.
C26_Witness ==
    /\ lastOp = "tick"
    /\ \E i \in Devices :
          /\ state.devices[i].compromised
          /\ state.devices[i].riskScore # RiskFormula(state.devices[i])

\* C28: in a risk refresh a "risk_change" event is emitted for a device if and
\* only if its new and previous riskScore differ by more than 15, and the
\* event reports "increased" exactly when the new score is the higher one.
C28_RiskChangeEvents ==
    [][lastOp' = "updateRiskScores" =>
          \A i \in Devices :
              LET old == state.devices[i].riskScore
                  new == state'.devices[i].riskScore
                  evs == EmittedFor("risk_change", i)'
              IN  /\ Cardinality(evs) = IF Abs(new - old) > 15 THEN 1 ELSE 0
                  /\ \A k \in evs :
                        emitted'[k].message =
                            IF new > old THEN "Risk level increased" ELSE "Risk level decreased"]_vars

\* A refresh has reported an increase for a device compromised since the
\* last one, while a device whose failed logins raised its score by less has
\* no event.
C28_Witness ==
    /\ lastOp = "updateRiskScores"
    /\ \E i, j \in Devices :
          /\ state.devices[i].compromised
          /\ \E k \in EmittedFor("risk_change", i) : emitted[k].message = "Risk level increased"
          /\ EmittedFor("risk_change", j) = {}
          /\ state.devices[j].metrics.failedAuth > 0

\* C27: for every combination of device fields the risk score is the minimum
\* of 100 and the sum of the base of the type, 20 for a weak password, the cpu,
\* network and failed-login steps, 30 for compromised and 25 for integrityRisk;
\* a compromised, tampered, weak-password door_lock with cpu = 100 scores 100.
C27_RiskScoreIsFormula ==
    lastOp = "calculateDeviceRisk" =>
        /\ lastArg.riskScore = RiskFormula(lastArg.device)
        /\ (/\ lastArg.device.type = "door_lock"
            /\ lastArg.device.compromised
            /\ lastArg.device.integrityRisk
            /\ lastArg.device.weakPassword
            /\ lastArg.device.metrics.cpu = 100 * Scale) => lastArg.riskScore = 100

\* The score of a compromised, tampered, weak-password door_lock at cpu = 100
\* has been computed.
C27_Witness ==
    /\ lastOp = "calculateDeviceRisk"
    /\ lastArg.device.type = "door_lock"
    /\ lastArg.device.compromised
    /\ lastArg.device.integrityRisk
    /\ lastArg.device.weakPassword
    /\ lastArg.device.metrics.cpu = 100 * Scale
    /\ lastArg.riskScore = 100

\* C29: every SYN-flood event emitted in a tick has severity "high" when
\* attack.synFlood > 70 and severity "medium" for every other intensity of 1..70.
C29_SynFloodSeverity ==
    lastOp = "tick" =>
        \A k \in DOMAIN emitted :
            emitted[k].message = "SYN flood attack detected" =>
                emitted[k].severity = IF state.attack.synFlood > 70 THEN "high" ELSE "medium"

\* C30: a metric refresh changes each device's failedAuth by 0 or by exactly
\* -1, and by -1 only when it was greater than 0.
C30_FailedAuthDecaysByOne ==
    [][lastOp' = "updateDeviceMetrics" =>
          \A i \in Devices :
              LET old == state.devices[i].metrics.failedAuth
                  new == state'.devices[i].metrics.failedAuth
              IN  new = old \/ (old > 0 /\ new = old - 1)]_vars

\* C31: every event an operation emits is delivered, before the operation
\* returns, to every registered listener once per registration and in
\* registration order, and the events are delivered in emission order: the
\* calls made are, event after event, one call per position of the listener
\* list.
C31_SynchronousOrderedDelivery ==
    /\ Len(calls) = Len(emitted) * Len(eventListeners)
    /\ \A e \in DOMAIN emitted, k \in DOMAIN eventListeners :
          (e - 1) * Len(eventListeners) + k \in DOMAIN calls =>
              calls[(e - 1) * Len(eventListeners) + k] = <<eventListeners[k], emitted[e].message>>

\* C32: the client's event log is newest-first and bounded by 1000: a
\* received event goes to index 0 in front of the events already there, the
\* length never exceeds 1000, and only at the cap does a new event drop one
\* event, the oldest.
C32_EventLogBounded ==
    [][lastOp' \in {"socket.on('event')", "addEvent"} =>
          /\ Len(useStore'.events) <= 1000
          /\ useStore'.events[1] = lastArg'.event
          /\ useStore'.events =
                IF Len(useStore.events) < 1000
                THEN <<lastArg'.event>> \o useStore.events
                ELSE <<lastArg'.event>> \o SubSeq(useStore.events, 1, 999)]_vars

\* C33: after updateDevice(d) on the client store, whatever the device list
\* was before, the device list has an entry equal to d.
C33_UpdateDeviceStoresDevice ==
    [][lastOp' = "updateDevice" =>
          \E k \in DOMAIN useSimulationStore'.devices :
              useSimulationStore'.devices[k] = lastArg'.device]_vars

\* C34: after resetSimulation() on the client store, from every store state,
\* the reset command has been sent to the server and the store has no
\* devices, no selected device and isSimulationRunning false.
C34_ResetClearsClientStore ==
    [][lastOp' = "resetSimulation" =>
          /\ lastArg'.sent = <<"reset">>
          /\ useSimulationStore'.devices = <<>>
          /\ useSimulationStore'.selectedDeviceId = NULL
          /\ ~useSimulationStore'.isSimulationRunning]_vars

\* The place of an event of a tick in the order the specification gives.
EventRank(event) ==
    CASE event.message = "SYN flood attack detected" -> 1
      [] event.type = "compromise" -> 2
      [] event.message = "MQTT flood attack detected" -> 3
      [] event.type = "tampering" -> 4
      [] event.type = "defense" -> 5
      [] OTHER -> 0

\* C35: within one tick the devices are processed in list order and for each
\* device the attack effects run before the defense mitigations: the events of
\* one device appear in the order SYN flood, compromise, MQTT flood,
\* tampering, defense, and all events of an earlier device precede all events
\* of a later one.
C35_TickEventOrder ==
    lastOp = "tick" =>
        \A k, l \in DOMAIN emitted :
            k < l =>
                \/ emitted[k].deviceId < emitted[l].deviceId
                \/ /\ emitted[k].deviceId = emitted[l].deviceId
                   /\ EventRank(emitted[k]) < EventRank(emitted[l])

\* A tick has emitted all five kinds of event for one device and events for
\* a later device.
C35_Witness ==
    /\ lastOp = "tick"
    /\ \E i, j \in Devices :
          /\ i < j
          /\ {EventRank(emitted[k]) : k \in {n \in DOMAIN emitted : emitted[n].deviceId = i}}
                = 1..5
          /\ \E k \in DOMAIN emitted : emitted[k].deviceId = j

\* C36: the factor applied to a device's baseline metrics before the jitter
\* is 1.0 for an uncompromised, untampered device, the metrics synthesized at
\* creation included, and 1.5 for a compromised, untampered device: the
\* synthesized cpu lies within 20% of the baseline, times 1.5 when compromised.
C36_MetricFactor ==
    (lastOp \in {"new", "reset", "updateDeviceMetrics"} /\ ~threw) =>
        \A i \in Devices :
            LET d == state.devices[i]
                base == BASE_METRICS(d.type).cpu
                factor2 == IF d.compromised THEN 3 ELSE 2
            IN  ~d.integrityRisk =>
                    /\ 20 * d.metrics.cpu >= 8 * factor2 * base
                    /\ 20 * d.metrics.cpu <= 12 * factor2 * base

\* C37: the device list always holds exactly 5 devices with the ids 1..5 in
\* creation order, and no operation other than reset() changes a device's
\* id, type, weakPassword or openPorts.
C37_DeviceListKeepsShape ==
    [][/\ Len(state'.devices) = DeviceCount
       /\ \A i \in Devices : state'.devices[i].id = i
       /\ lastOp' # "reset" =>
             \A i \in Devices :
                 /\ state'.devices[i].id = state.devices[i].id
                 /\ state'.devices[i].type = state.devices[i].type
                 /\ state'.devices[i].weakPassword = state.devices[i].weakPassword
                 /\ state'.devices[i].openPorts = state.devices[i].openPorts]_vars

\* A tick has compromised a device and raised failedAuth on the others, and
\* the list is the one the engine created.
C37_Witness ==
    /\ lastOp = "tick"
    /\ Len(state.devices) = DeviceCount
    /\ \E i, j \in Devices :
          /\ state.devices[i].compromised /\ state.devices[i].weakPassword
          /\ ~state.devices[j].compromised /\ state.devices[j].metrics.failedAuth > 0
          /\ state.devices[j].openPorts = DEFAULT_PORTS(state.devices[j].type)

\* C38: after any sequence of start(), pause() and reset() calls at most one
\* instance of each periodic loop (tick, metric refresh, risk refresh) is
\* scheduled.
C38_OneTimerPerLoop ==
    \A cb \in LoopOps : NumTimers(cb) <= 1

\* C39: after any sequence of connects and disconnects the number of
\* per-client engine listeners and the number of per-client push timers both
\* equal the number of connected clients.
C39_PerClientResourcesMatch ==
    /\ Cardinality({k \in DOMAIN eventListeners : eventListeners[k].kind = "eventHandler"})
          = Cardinality(sockets)
    /\ Cardinality(pushTimers) = Cardinality(sockets)

====
